---- MODULE Spec2Model ----
(***************************************************************************)
(* A model of src/app.py: the XP service of ak-data-bot.                   *)
(*                                                                         *)
(* Every request handler opens its own PostgreSQL connection and runs its  *)
(* statements inside `with conn:` -- one transaction per request, at the   *)
(* server's default isolation level READ COMMITTED.  The model therefore   *)
(* keeps the committed tables, and per worker the uncommitted writes of    *)
(* its open transaction:                                                   *)
(*   - a SELECT reads the committed tables (no handler reads a row it has  *)
(*     itself written);                                                    *)
(*   - UPDATE, DELETE and INSERT .. ON CONFLICT lock the row they touch    *)
(*     until the transaction ends; a statement that meets a row locked by  *)
(*     another transaction waits, and then works on the row version that   *)
(*     is committed when it gets the lock;                                 *)
(*   - commit publishes the writes, rollback (an exception leaving the     *)
(*     `with conn:` block) discards them.                                  *)
(* One action is one statement of a handler together with the Python code  *)
(* that follows it up to the next statement.                               *)
(***************************************************************************)
EXTENDS Integers, Sequences, FiniteSets, TLC

\* ---------------------------------------------------------------- bounds
MaxXp == 1       \* xp values and stash amounts sent by callers: -1..MaxXp
MaxTime == 2     \* caller timestamps and the wall clock: 0..MaxTime
MaxOps == 2      \* requests started in one behaviour

\* ---------------------------------------------------------------- inputs
Workers == {"w1", "w2"}          \* requests served in parallel
Users == {"u1", "u2"}            \* xp_data.userId / roblox_user_id
Senders == {"d1", "d2"}          \* discord_id
\* username and json.dumps(offenseData) (or NULL) of a request body
Profiles == {[name |-> "n1", off |-> "null"], [name |-> "n2", off |-> "o1"]}
XpInputs == (0 - 1)..MaxXp       \* the 'xp' field of a request body
TimeInputs == 0..MaxTime         \* the 'timestamp' field of a request body

VARIABLES
    xp_data,        \* committed table xp_data: userId -> row
    xp_history,     \* committed table xp_history, in id order
    stored_xp,      \* committed table stored_xp: discord_id -> stored_xp
    user_mappings,  \* committed table user_mappings: discord_id -> roblox_user_id
    now,            \* int(datetime.datetime.utcnow().timestamp())
    pc,             \* per worker: the statement its handler executes next
    loc,            \* per worker: the handler's arguments and local variables
    wr_xp,          \* per worker: uncommitted xp_data rows of its transaction
    wr_hist,        \* per worker: uncommitted xp_history rows of its transaction
    wr_del,         \* per worker: stored_xp rows its transaction has deleted
    result,         \* the reply sent last, with the worker, handler and identity
    nops            \* requests started so far

vars == <<xp_data, xp_history, stored_xp, user_mappings, now, pc, loc,
          wr_xp, wr_hist, wr_del, result, nops>>

db == <<xp_data, xp_history, stored_xp, user_mappings>>

\* The empty table / empty write set.
Empty == [k \in {} |-> 0]

NoLoc == [op |-> "none", user |-> "", sender |-> "", name |-> "", off |-> "null",
          xp |-> 0, ts |-> 0, old_xp |-> 0, amt |-> 0, new_xp |-> 0]

NoResult == [worker |-> "", op |-> "none", key |-> "", status |-> "none", http |-> 0,
             detail |-> "", a |-> 0, b |-> 0]

\* A reply: its kind, the HTTP status, the text of `detail` (or of the
\* exception the handler wrapped), and the numbers of a success body.
Reply(status, http, detail, a, b) ==
    [status |-> status, http |-> http, detail |-> detail, a |-> a, b |-> b]

\* The reply r as worker p sends it for the request with locals l; `key`
\* is the identity the request worked on (userId for /update_xp and
\* /set_xp, discord_id for /store_xp and the redeem handlers).
Sent(p, l, r) ==
    [worker |-> p, op |-> l.op,
     key |-> IF l.op \in {"update_xp", "set_xp"} THEN l.user ELSE l.sender,
     status |-> r.status, http |-> r.http, detail |-> r.detail, a |-> r.a, b |-> r.b]

\* ------------------------------------------------------------ init_db
\* The row update_xp(u1, "n1", xp = 1, offenseData = null, timestamp = 1)
\* leaves in xp_data, and the xp_history row it appends.
EarlierRow == [username |-> "n1", xp |-> 1, offenseData |-> "null", last_updated |-> 1]

EarlierHistory == <<[userId |-> "u1", xp_change |-> 1, timestamp |-> 1]>>

\* init_db only creates the tables that are missing: the database outlives
\* the service.  The behaviours start from a database in which an earlier
\* update_xp has created the record of u1 (u2 has none yet), d1 is linked
\* to u1 and holds stashed points, and d2 is unlinked or linked to either
\* user, with or without stashed points.  app.py has no writer of
\* user_mappings and no working writer of stored_xp (see StoreXpUpsert):
\* their rows are put there by the other clients of the database.
Init ==
    /\ xp_data = ("u1" :> EarlierRow)
    /\ xp_history = EarlierHistory
    /\ stored_xp \in {s \in [Senders -> 0..MaxXp] : s["d1"] > 0}
    /\ \E D \in SUBSET Senders :
         /\ user_mappings \in [D -> Users]
         /\ "d1" \in D
         /\ user_mappings["d1"] = "u1"
    /\ now = 1
    /\ pc = [p \in Workers |-> "idle"]
    /\ loc = [p \in Workers |-> NoLoc]
    /\ wr_xp = [p \in Workers |-> Empty]
    /\ wr_hist = [p \in Workers |-> <<>>]
    /\ wr_del = [p \in Workers |-> {}]
    /\ result = NoResult
    /\ nops = 0

\* ---------------------------------------------------- transactions
\* Row locks: a row is locked by the transactions that wrote it.
XpLockedByOther(p, u) == \E q \in Workers \ {p} : u \in DOMAIN wr_xp[q]

StashLockedByOther(p, d) == \E q \in Workers \ {p} : d \in wr_del[q]

\* The committed xp_data after worker p's writes are published.
CommittedXp(p) ==
    [u \in DOMAIN xp_data \cup DOMAIN wr_xp[p] |->
        IF u \in DOMAIN wr_xp[p] THEN wr_xp[p][u] ELSE xp_data[u]]

CommittedStash(p) == [d \in DOMAIN stored_xp \ wr_del[p] |-> stored_xp[d]]

\* Leaving `with conn:` normally: commit, then return `r`.
Commit(p, r) ==
    /\ xp_data' = CommittedXp(p)
    /\ xp_history' = xp_history \o wr_hist[p]
    /\ stored_xp' = CommittedStash(p)
    /\ wr_xp' = [wr_xp EXCEPT ![p] = Empty]
    /\ wr_hist' = [wr_hist EXCEPT ![p] = <<>>]
    /\ wr_del' = [wr_del EXCEPT ![p] = {}]
    /\ pc' = [pc EXCEPT ![p] = "idle"]
    /\ loc' = [loc EXCEPT ![p] = NoLoc]
    /\ result' = Sent(p, loc[p], r)
    /\ UNCHANGED <<user_mappings, now, nops>>

\* Leaving `with conn:` by an exception: rollback, then answer `r`.
Rollback(p, r) ==
    /\ wr_xp' = [wr_xp EXCEPT ![p] = Empty]
    /\ wr_hist' = [wr_hist EXCEPT ![p] = <<>>]
    /\ wr_del' = [wr_del EXCEPT ![p] = {}]
    /\ pc' = [pc EXCEPT ![p] = "idle"]
    /\ loc' = [loc EXCEPT ![p] = NoLoc]
    /\ result' = Sent(p, loc[p], r)
    /\ UNCHANGED <<db, now, nops>>

\* A request rejected before it opens a connection.
Reject(p, l, r) ==
    /\ result' = Sent(p, l, r)
    /\ nops' = nops + 1
    /\ UNCHANGED <<pc, loc>>
    /\ UNCHANGED <<db, now, wr_xp, wr_hist, wr_del>>

\* A request that passed validation and goes on to its first statement.
Begin(p, l, first) ==
    /\ pc' = [pc EXCEPT ![p] = first]
    /\ loc' = [loc EXCEPT ![p] = l]
    /\ nops' = nops + 1
    /\ UNCHANGED <<db, now, result, wr_xp, wr_hist, wr_del>>

\* The handler moves on to its next statement inside the transaction.
Goto(p, l, next) ==
    /\ pc' = [pc EXCEPT ![p] = next]
    /\ loc' = [loc EXCEPT ![p] = l]
    /\ UNCHANGED <<db, now, result, nops>>

CanStart(p) == pc[p] = "idle" /\ nops < MaxOps


\* ------------------------------------------------- POST /update_xp
\* The stale check with `<` for `<=`: an update that repeats the stored
\* timestamp is let through.
StaleStrict(timestamp, old_timestamp) == timestamp < old_timestamp

\* line 92: the comparison that drops an update as stale.
Stale(timestamp, old_timestamp) == timestamp <= old_timestamp

\* The validation without the `xp < 0` of line 80: a negative xp opens
\* the transaction like any other.
UpdateXpStartUnchecked(p) ==
    /\ CanStart(p)
    /\ \E u \in Users, f \in Profiles, x \in XpInputs, t \in TimeInputs :
         Begin(p, [NoLoc EXCEPT !.op = "update_xp", !.user = u, !.name = f.name,
                                !.xp = x, !.off = f.off, !.ts = t], "upd_select")

\* lines 73-85: read the body, validate, open the connection.  Every
\* HTTPException raised here is caught at line 109 and answered as a
\* plain {"error": ...} body.
UpdateXpStart(p) ==
    /\ CanStart(p)
    /\ \E u \in Users, f \in Profiles, x \in XpInputs, t \in TimeInputs :
         LET l == [NoLoc EXCEPT !.op = "update_xp", !.user = u, !.name = f.name,
                                !.xp = x, !.off = f.off, !.ts = t]
         IN  IF x < 0
             THEN Reject(p, l, Reply("error", 200, "XP must be a non-negative integer", 0, 0))
             ELSE Begin(p, l, "upd_select")

\* lines 88-94: SELECT, the stale check, xp_change.  The `return` of
\* line 93 leaves `with conn:` normally, which commits.
UpdateXpSelect(p) ==
    /\ pc[p] = "upd_select"
    /\ LET u == loc[p].user
           old_xp == IF u \in DOMAIN xp_data THEN xp_data[u].xp ELSE 0
           old_timestamp == IF u \in DOMAIN xp_data THEN xp_data[u].last_updated ELSE 0
       IN  IF Stale(loc[p].ts, old_timestamp)
           THEN Commit(p, Reply("ignored", 200, "Older timestamp", 0, 0))
           ELSE /\ Goto(p, [loc[p] EXCEPT !.old_xp = old_xp], "upd_upsert")
                /\ UNCHANGED <<wr_xp, wr_hist, wr_del>>

\* The upsert without the `if xp_change != 0` of line 104: every accepted
\* update goes on to log its change.
UpdateXpUpsertAlwaysLogs(p) ==
    /\ pc[p] = "upd_upsert"
    /\ ~XpLockedByOther(p, loc[p].user)
    /\ LET u == loc[p].user
           row == [username |-> loc[p].name, xp |-> loc[p].xp,
                   offenseData |-> loc[p].off, last_updated |-> loc[p].ts]
       IN  /\ wr_xp' = [wr_xp EXCEPT ![p] = (u :> row) @@ wr_xp[p]]
           /\ Goto(p, loc[p], "upd_hist")
           /\ UNCHANGED <<wr_hist, wr_del>>

\* lines 95-104: INSERT .. ON CONFLICT (userId) DO UPDATE; it waits while
\* another transaction holds the row.
UpdateXpUpsert(p) ==
    /\ pc[p] = "upd_upsert"
    /\ ~XpLockedByOther(p, loc[p].user)
    /\ LET u == loc[p].user
           row == [username |-> loc[p].name, xp |-> loc[p].xp,
                   offenseData |-> loc[p].off, last_updated |-> loc[p].ts]
           xp_change == loc[p].xp - loc[p].old_xp
       IN  /\ wr_xp' = [wr_xp EXCEPT ![p] = (u :> row) @@ wr_xp[p]]
           /\ Goto(p, loc[p], IF xp_change # 0 THEN "upd_hist" ELSE "upd_commit")
           /\ UNCHANGED <<wr_hist, wr_del>>

\* lines 105-106: INSERT INTO xp_history.
UpdateXpHistory(p) ==
    /\ pc[p] = "upd_hist"
    /\ wr_hist' = [wr_hist EXCEPT ![p] =
          Append(@, [userId |-> loc[p].user, xp_change |-> loc[p].xp - loc[p].old_xp,
                     timestamp |-> loc[p].ts])]
    /\ Goto(p, loc[p], "upd_commit")
    /\ UNCHANGED <<wr_xp, wr_del>>

\* lines 86, 107-108: the end of `with conn:` and the reply.
UpdateXpCommit(p) ==
    /\ pc[p] = "upd_commit"
    /\ Commit(p, Reply("success", 200, "", loc[p].xp, loc[p].ts))

\* ---------------------------------------------------- POST /set_xp
\* lines 139-146: validate, take the wall clock, open the connection.
SetXpStart(p) ==
    /\ CanStart(p)
    /\ \E u \in Users, x \in XpInputs :
         LET l == [NoLoc EXCEPT !.op = "set_xp", !.user = u, !.xp = x, !.ts = now]
         IN  IF x < 0
             THEN Reject(p, l, Reply("error", 500, "XP must be a non-negative integer", 0, 0))
             ELSE Begin(p, l, "set_select")

\* The SELECT without the `if not row` of lines 151-152: an unknown user
\* is taken to have xp 0, as update_xp takes it.
SetXpSelectLenient(p) ==
    /\ pc[p] = "set_select"
    /\ LET u == loc[p].user
           old_xp == IF u \in DOMAIN xp_data THEN xp_data[u].xp ELSE 0
           username == IF u \in DOMAIN xp_data THEN xp_data[u].username ELSE ""
       IN  /\ Goto(p, [loc[p] EXCEPT !.old_xp = old_xp, !.name = username], "set_update")
           /\ UNCHANGED <<wr_xp, wr_hist, wr_del>>

\* lines 149-155: SELECT; an unknown user raises inside `with conn:`.
SetXpSelect(p) ==
    /\ pc[p] = "set_select"
    /\ LET u == loc[p].user
       IN  IF u \notin DOMAIN xp_data
           THEN Rollback(p, Reply("error", 500, "User not found", 0, 0))
           ELSE /\ Goto(p, [loc[p] EXCEPT !.old_xp = xp_data[u].xp, !.name = xp_data[u].username],
                        "set_update")
                /\ UNCHANGED <<wr_xp, wr_hist, wr_del>>

\* The UPDATE with `offenseData = NULL` added to its SET list: the write
\* of the balance also clears the side data.
UpdateRowClearsOffenses(p, u, xp, timestamp) ==
    IF u \in DOMAIN xp_data
    THEN (u :> [xp_data[u] EXCEPT !.xp = xp, !.offenseData = "null",
                                   !.last_updated = timestamp]) @@ wr_xp[p]
    ELSE wr_xp[p]

\* An UPDATE of xp and last_updated on the committed row of user u.
UpdateRow(p, u, xp, timestamp) ==
    IF u \in DOMAIN xp_data
    THEN (u :> [xp_data[u] EXCEPT !.xp = xp, !.last_updated = timestamp]) @@ wr_xp[p]
    ELSE wr_xp[p]

\* lines 156-158: UPDATE xp_data SET xp, last_updated.
SetXpUpdate(p) ==
    /\ pc[p] = "set_update"
    /\ ~XpLockedByOther(p, loc[p].user)
    /\ wr_xp' = [wr_xp EXCEPT ![p] = UpdateRow(p, loc[p].user, loc[p].xp, loc[p].ts)]
    /\ Goto(p, loc[p], IF loc[p].xp - loc[p].old_xp # 0 THEN "set_hist" ELSE "set_commit")
    /\ UNCHANGED <<wr_hist, wr_del>>

\* lines 159-160: INSERT INTO xp_history.
SetXpHistory(p) ==
    /\ pc[p] = "set_hist"
    /\ wr_hist' = [wr_hist EXCEPT ![p] =
          Append(@, [userId |-> loc[p].user, xp_change |-> loc[p].xp - loc[p].old_xp,
                     timestamp |-> loc[p].ts])]
    /\ Goto(p, loc[p], "set_commit")
    /\ UNCHANGED <<wr_xp, wr_del>>

\* lines 147, 161-162: the end of `with conn:` and the reply.
SetXpCommit(p) ==
    /\ pc[p] = "set_commit"
    /\ Commit(p, Reply("success", 200, "", loc[p].xp, loc[p].ts))

\* --------------------------------------------------- POST /store_xp
\* lines 260-266: validate, open the connection.
StoreXpStart(p) ==
    /\ CanStart(p)
    /\ \E d \in Senders, x \in XpInputs :
         LET l == [NoLoc EXCEPT !.op = "store_xp", !.sender = d, !.amt = x]
         IN  IF x < 0
             THEN Reject(p, l, Reply("error", 500, "XP must be non-negative", 0, 0))
             ELSE Begin(p, l, "st_upsert")

\* lines 270-271: the relations whose columns an unqualified name in the
\* DO UPDATE SET expression can mean.  PostgreSQL puts both the target
\* table and the pseudo-table `excluded` (the row proposed for insertion)
\* in scope there, and both have every column of stored_xp.
UpsertSetScope == {"stored_xp", "excluded"}

\* line 271: `stored_xp + %s` names the column stored_xp without a
\* qualifier.  A name that more than one relation in scope can supply is
\* rejected when the statement is analysed ("column reference "stored_xp"
\* is ambiguous"), whether or not the row exists.
StoreXpColumnAmbiguous == Cardinality(UpsertSetScope) > 1

\* lines 267-277: INSERT .. ON CONFLICT (discord_id) DO UPDATE SET
\* stored_xp = stored_xp + %s.  The statement is refused, psycopg2 raises
\* AmbiguousColumn out of `with conn:` (rollback), and line 276 turns it
\* into a 500; lines 274-275 are not reached.
StoreXpUpsert(p) ==
    /\ pc[p] = "st_upsert"
    /\ StoreXpColumnAmbiguous
    /\ Rollback(p, Reply("error", 500, "column reference is ambiguous", 0, 0))

\* ------------------------- POST /redeem_xp and POST /redeem_xp_ingame
\* lines 282-283: /redeem_xp takes the discord_id from the body.
RedeemXpStart(p) ==
    /\ CanStart(p)
    /\ \E d \in Senders :
         Begin(p, [NoLoc EXCEPT !.op = "redeem_xp", !.sender = d], "rd_map")

\* lines 323-326: /redeem_xp_ingame takes the roblox_user_id.
RedeemXpIngameStart(p) ==
    /\ CanStart(p)
    /\ \E u \in Users :
         Begin(p, [NoLoc EXCEPT !.op = "redeem_xp_ingame", !.user = u], "rd_map")

\* The lookup without the `if not mapping` of lines 288-289: a sender with
\* no row in user_mappings goes on as its own receiver.
RedeemXpMappingUnchecked(p) ==
    /\ pc[p] = "rd_map"
    /\ loc[p].op = "redeem_xp"
    /\ LET d == loc[p].sender
           u == IF d \in DOMAIN user_mappings THEN user_mappings[d] ELSE d
       IN  /\ Goto(p, [loc[p] EXCEPT !.user = u], "rd_stash")
           /\ UNCHANGED <<wr_xp, wr_hist, wr_del>>

\* lines 286-290: /redeem_xp resolves discord_id -> roblox_user_id.
RedeemXpMapping(p) ==
    /\ pc[p] = "rd_map"
    /\ loc[p].op = "redeem_xp"
    /\ LET d == loc[p].sender
       IN  IF d \notin DOMAIN user_mappings
           THEN Rollback(p, Reply("error", 500, "User not verified", 0, 0))
           ELSE /\ Goto(p, [loc[p] EXCEPT !.user = user_mappings[d]], "rd_stash")
                /\ UNCHANGED <<wr_xp, wr_hist, wr_del>>

\* lines 329-333: /redeem_xp_ingame resolves roblox_user_id -> discord_id;
\* fetchone() takes whichever matching row the scan yields first.
RedeemXpIngameMapping(p) ==
    /\ pc[p] = "rd_map"
    /\ loc[p].op = "redeem_xp_ingame"
    /\ LET linked == {d \in DOMAIN user_mappings : user_mappings[d] = loc[p].user}
       IN  IF linked = {}
           THEN Rollback(p, Reply("error", 500, "User not verified", 0, 0))
           ELSE /\ \E d \in linked : Goto(p, [loc[p] EXCEPT !.sender = d], "rd_stash")
                /\ UNCHANGED <<wr_xp, wr_hist, wr_del>>

\* lines 292-296 (335-339): SELECT stored_xp.
RedeemStash(p) ==
    /\ pc[p] = "rd_stash"
    /\ LET d == loc[p].sender
       IN  IF d \notin DOMAIN stored_xp \/ stored_xp[d] <= 0
           THEN Rollback(p, Reply("error", 500, "No stored XP", 0, 0))
           ELSE /\ Goto(p, [loc[p] EXCEPT !.amt = stored_xp[d]], "rd_xp")
                /\ UNCHANGED <<wr_xp, wr_hist, wr_del>>

\* lines 298-304 (341-347): SELECT xp, new_xp, timestamp.
RedeemBalance(p) ==
    /\ pc[p] = "rd_xp"
    /\ LET u == loc[p].user
       IN  IF u \notin DOMAIN xp_data
           THEN Rollback(p, Reply("error", 500, "User not found in xp_data", 0, 0))
           ELSE /\ Goto(p, [loc[p] EXCEPT !.old_xp = xp_data[u].xp,
                                          !.new_xp = xp_data[u].xp + loc[p].amt,
                                          !.ts = now], "rd_update")
                /\ UNCHANGED <<wr_xp, wr_hist, wr_del>>

\* The UPDATE on a connection in autocommit mode: the new balance is
\* durable at once, apart from the rest of the redeem.
RedeemUpdateAutocommit(p) ==
    /\ pc[p] = "rd_update"
    /\ ~XpLockedByOther(p, loc[p].user)
    /\ xp_data' = [xp_data EXCEPT ![loc[p].user].xp = loc[p].new_xp,
                                  ![loc[p].user].last_updated = loc[p].ts]
    /\ pc' = [pc EXCEPT ![p] = "rd_hist"]
    /\ UNCHANGED <<xp_history, stored_xp, user_mappings, now, loc, wr_xp, wr_hist,
                   wr_del, result, nops>>

\* lines 306-309 (349-352): UPDATE xp_data SET xp, last_updated.
RedeemUpdate(p) ==
    /\ pc[p] = "rd_update"
    /\ ~XpLockedByOther(p, loc[p].user)
    /\ wr_xp' = [wr_xp EXCEPT ![p] = UpdateRow(p, loc[p].user, loc[p].new_xp, loc[p].ts)]
    /\ Goto(p, loc[p], "rd_hist")
    /\ UNCHANGED <<wr_hist, wr_del>>

\* lines 310-313 (353-356): INSERT INTO xp_history, unconditionally.
RedeemHistory(p) ==
    /\ pc[p] = "rd_hist"
    /\ wr_hist' = [wr_hist EXCEPT ![p] =
          Append(@, [userId |-> loc[p].user, xp_change |-> loc[p].amt,
                     timestamp |-> loc[p].ts])]
    /\ Goto(p, loc[p], "rd_delete")
    /\ UNCHANGED <<wr_xp, wr_del>>

\* The redeem without its DELETE: the Stash Entry stays.
RedeemDeleteSkipped(p) ==
    /\ pc[p] = "rd_delete"
    /\ Goto(p, loc[p], "rd_commit")
    /\ UNCHANGED <<wr_xp, wr_hist, wr_del>>

\* line 314 (357): DELETE FROM stored_xp WHERE discord_id = ..; it removes
\* the row that is committed when it runs, whatever its stored_xp, and
\* nothing when there is none.
RedeemDelete(p) ==
    /\ pc[p] = "rd_delete"
    /\ LET d == loc[p].sender
       IN  /\ d \in DOMAIN stored_xp => ~StashLockedByOther(p, d)
           /\ wr_del' = [wr_del EXCEPT ![p] = IF d \in DOMAIN stored_xp THEN @ \cup {d} ELSE @]
    /\ Goto(p, loc[p], "rd_commit")
    /\ UNCHANGED <<wr_xp, wr_hist>>

\* The handler without `with conn:`: it replies, and its transaction is
\* never committed, so the rows it wrote stay locked.
RedeemCommitLeavesOpen(p) ==
    /\ pc[p] = "rd_commit"
    /\ pc' = [pc EXCEPT ![p] = "idle"]
    /\ loc' = [loc EXCEPT ![p] = NoLoc]
    /\ result' = Sent(p, loc[p], Reply("success", 200, "", loc[p].amt, loc[p].new_xp))
    /\ UNCHANGED <<db, now, nops, wr_xp, wr_hist, wr_del>>

\* lines 284, 315-316 (327, 358-359): the end of `with conn:` and the reply.
RedeemCommit(p) ==
    /\ pc[p] = "rd_commit"
    /\ Commit(p, Reply("success", 200, "", loc[p].amt, loc[p].new_xp))

\* ------------------------------------------------------ environment
\* The statements of an open transaction: from the first statement to
\* the commit.
InTransaction(p) == pc[p] # "idle"

\* The store fails, or the service dies, while a transaction is open:
\* the exception leaves `with conn:` (the server drops the transaction of
\* a lost connection), so nothing of it is committed.
Fail(p) ==
    /\ InTransaction(p)
    /\ Rollback(p, Reply("error", IF loc[p].op = "update_xp" THEN 200 ELSE 500,
                          "store failure", 0, 0))

\* The wall clock advances.
Tick ==
    /\ now < MaxTime
    /\ now' = now + 1
    /\ UNCHANGED <<db, pc, loc, wr_xp, wr_hist, wr_del, result, nops>>

Next ==
    \/ \E p \in Workers :
         \/ UpdateXpStart(p) \/ UpdateXpSelect(p) \/ UpdateXpUpsert(p)
         \/ UpdateXpHistory(p) \/ UpdateXpCommit(p)
         \/ SetXpStart(p) \/ SetXpSelect(p) \/ SetXpUpdate(p)
         \/ SetXpHistory(p) \/ SetXpCommit(p)
         \/ StoreXpStart(p) \/ StoreXpUpsert(p)
         \/ RedeemXpStart(p) \/ RedeemXpIngameStart(p)
         \/ RedeemXpMapping(p) \/ RedeemXpIngameMapping(p)
         \/ RedeemStash(p) \/ RedeemBalance(p) \/ RedeemUpdate(p)
         \/ RedeemHistory(p) \/ RedeemDelete(p) \/ RedeemCommit(p)
         \/ Fail(p)
    \/ Tick

Spec == Init /\ [][Next]_vars

\* The service with one caller: a request is sent only when the reply to
\* the one before it has arrived.
SeqNext == Next /\ (nops' > nops => \A q \in Workers : pc[q] = "idle")

SeqSpec == Init /\ [][SeqNext]_vars

\* A statement of worker p's handler after the request was accepted.
Step(p) ==
    \/ UpdateXpSelect(p) \/ UpdateXpUpsert(p) \/ UpdateXpHistory(p) \/ UpdateXpCommit(p)
    \/ SetXpSelect(p) \/ SetXpUpdate(p) \/ SetXpHistory(p) \/ SetXpCommit(p)
    \/ StoreXpUpsert(p)
    \/ RedeemXpMapping(p) \/ RedeemXpIngameMapping(p)
    \/ RedeemStash(p) \/ RedeemBalance(p) \/ RedeemUpdate(p)
    \/ RedeemHistory(p) \/ RedeemDelete(p) \/ RedeemCommit(p)

\* The handlers are straight-line code: a handler whose next statement
\* can run does run it; only a statement that waits for a row lock does
\* not.  New requests and store failures need not happen.
FairSpec == Spec /\ \A p \in Workers : WF_vars(Step(p))

\* ------------------------------------------------- GET /leaderboard
\* line 169: the largest number of rows /leaderboard returns.
LeaderboardCap == 50

\* The largest xp_data table the leaderboard is tried on.
MaxRows == 52

\* The `limit` query parameters tried (the ones int() accepts).
LimitInputs == {0, 1, 2, LeaderboardCap, LeaderboardCap + 1, 1000}

\* ORDER BY xp DESC does not order the rows of equal xp: they come as the
\* scan yields them, here by ascending or by descending key.
TieOrders == {"asc", "desc"}

Min(a, b) == IF a <= b THEN a ELSE b

\* Row u of the table comes before row v in ORDER BY xp DESC.
Before(table, tie, u, v) ==
    \/ table[u].xp > table[v].xp
    \/ /\ table[u].xp = table[v].xp
       /\ IF tie = "asc" THEN u < v ELSE u > v

\* line 175: the keys `ids` of the table in the order of ORDER BY xp DESC:
\* each key goes to the place after the keys that come before it.
OrderByXpDesc(table, tie, ids) ==
    LET place == {<<u, Cardinality({v \in ids : Before(table, tie, v, u)}) + 1>> : u \in ids}
    IN  [i \in 1..Cardinality(ids) |-> (CHOOSE pl \in place : pl[2] = i)[1]]

\* The columns username, xp of the rows with the keys `keys`, in order.
Columns(table, keys) ==
    [i \in 1..Len(keys) |-> [username |-> table[keys[i]].username, xp |-> table[keys[i]].xp]]

\* line 175: SELECT username, xp FROM xp_data ORDER BY xp DESC LIMIT limit.
SelectTop(table, tie, limit) ==
    LET ordered == OrderByXpDesc(table, tie, DOMAIN table)
    IN  Columns(table, SubSeq(ordered, 1, Min(limit, Len(ordered))))

\* The reply r of /leaderboard to the request for n rows.
SentLeaderboard(p, n, r, rows) ==
    [limit |-> n, rows |-> rows] @@ Sent(p, [NoLoc EXCEPT !.op = "leaderboard"], r)

\* The handler with `limit = int(..)` for the `min(int(..), 50)` of line
\* 169: the caller's number goes to LIMIT as it is.
GetLeaderboardUncapped(p) ==
    /\ CanStart(p)
    /\ \E n \in LimitInputs, tie \in TieOrders :
         LET limit == n
         IN  result' =
               IF limit <= 0
               THEN SentLeaderboard(p, n, Reply("error", 500, "Limit must be positive", 0, 0), <<>>)
               ELSE SentLeaderboard(p, n, Reply("success", 200, "", 0, 0),
                                    SelectTop(xp_data, tie, limit))
    /\ nops' = nops + 1
    /\ UNCHANGED <<db, now, pc, loc, wr_xp, wr_hist, wr_del>>

\* lines 166-182: the whole handler; it reads xp_data in one statement,
\* writes nothing and takes no row lock.
GetLeaderboard(p) ==
    /\ CanStart(p)
    /\ \E n \in LimitInputs, tie \in TieOrders :
         LET limit == Min(n, LeaderboardCap)
         IN  result' =
               IF limit <= 0
               THEN SentLeaderboard(p, n, Reply("error", 500, "Limit must be positive", 0, 0), <<>>)
               ELSE SentLeaderboard(p, n, Reply("success", 200, "", 0, 0),
                                    SelectTop(xp_data, tie, limit))
    /\ nops' = nops + 1
    /\ UNCHANGED <<db, now, pc, loc, wr_xp, wr_hist, wr_del>>

\* An xp_data table of n rows, keyed 1..n, whose xp runs through
\* 0..MaxXp+1 in steps of k: unsorted, with ties.
LbTable(n, k) ==
    [i \in 1..n |-> [username |-> ToString(i), xp |-> (i * k) % (MaxXp + 2),
                     offenseData |-> "null", last_updated |-> 1]]

\* The service over a database that holds between 0 and MaxRows Balance
\* Records, asked for its leaderboard.
LbInit ==
    /\ \E n \in 0..MaxRows, k \in 1..(MaxXp + 1) : xp_data = LbTable(n, k)
    /\ xp_history = <<>>
    /\ stored_xp = Empty
    /\ user_mappings = Empty
    /\ now = 1
    /\ pc = [p \in Workers |-> "idle"]
    /\ loc = [p \in Workers |-> NoLoc]
    /\ wr_xp = [p \in Workers |-> Empty]
    /\ wr_hist = [p \in Workers |-> <<>>]
    /\ wr_del = [p \in Workers |-> {}]
    /\ result = NoResult
    /\ nops = 0

LbNext == \E p \in Workers : GetLeaderboard(p)

LbSpec == LbInit /\ [][LbNext]_vars

\* ============================================================ claims
RedeemOps == {"redeem_xp", "redeem_xp_ingame"}

\* The stashed points of sender d, 0 when it has no Stash Entry.
StashOf(d) == IF d \in DOMAIN stored_xp THEN stored_xp[d] ELSE 0

\* The xp of user u, 0 when it has no Balance Record.
XpOf(u) == IF u \in DOMAIN xp_data THEN xp_data[u].xp ELSE 0

RECURSIVE SumDeltas(_, _)
\* The sum of the xp_change of user u's rows among the first n of xp_history.
SumDeltas(u, n) ==
    IF n = 0 THEN 0
    ELSE SumDeltas(u, n - 1) + (IF xp_history[n].userId = u THEN xp_history[n].xp_change ELSE 0)

\* Some request that reads or writes user u's Balance Record is under way.
InFlightOn(u) ==
    \E p \in Workers :
        /\ pc[p] # "idle"
        /\ \/ loc[p].user = u
           \/ /\ loc[p].op = "redeem_xp"
              /\ loc[p].sender \in DOMAIN user_mappings
              /\ user_mappings[loc[p].sender] = u

\* C1: an update_xp whose timestamp is less than or equal to the stored
\* last_updated of an existing record answers "ignored" and leaves the
\* record (xp, username, offenseData, last_updated) and the history as
\* they were.
C1_StaleRejected ==
    [][\A p \in Workers :
         ( /\ UpdateXpSelect(p)
           /\ loc[p].user \in DOMAIN xp_data
           /\ loc[p].ts <= xp_data[loc[p].user].last_updated )
         => /\ pc'[p] = "idle"
            /\ result'.worker = p
            /\ result'.status = "ignored"
            /\ xp_data' = xp_data
            /\ xp_history' = xp_history]_vars

\* C1 witness: after an update_xp for u1 with the largest timestamp was
\* accepted, a second update_xp for u1 has been ignored.
C1_Witness ==
    /\ result.op = "update_xp"
    /\ result.status = "ignored"
    /\ result.key = "u1"
    /\ xp_data["u1"].last_updated = MaxTime
    /\ nops = 2

\* C2: last writer wins by caller timestamp: an update_xp that commits
\* never replaces a record whose last_updated is larger than its own
\* timestamp, so after two concurrent calls with distinct timestamps the
\* record is that of the call with the larger one.
C2_LastWriterWins ==
    [][\A p \in Workers :
         (UpdateXpCommit(p) /\ loc[p].user \in DOMAIN xp_data)
         => loc[p].ts >= xp_data[loc[p].user].last_updated]_vars

\* C3: ledger replay: for every user with no request in flight, the sum
\* of the deltas of its History Entries equals its current xp.
C3_LedgerReplay ==
    \A u \in Users : ~InFlightOn(u) => SumDeltas(u, Len(xp_history)) = XpOf(u)

\* C4: redemption exactly once: every redeem that commits a credit and
\* its History Entry consumes a Stash Entry holding the amount it
\* credits, so no stashed amount is credited or entered in the history
\* twice by concurrent redeems of one sender.
C4_RedeemExactlyOnce ==
    [][\A p \in Workers :
         RedeemCommit(p)
         => /\ loc[p].sender \in DOMAIN stored_xp
            /\ stored_xp[loc[p].sender] = loc[p].amt]_vars

\* C5: no stashed points are lost: a step changes what is stashed for a
\* sender only by adding the amount of a stash call or by moving the
\* amount a redeem credits to the receiver.
C5_StashConserved ==
    [][\A p \in Workers :
         \A d \in {loc[p].sender}, amt \in {loc[p].amt} :
             /\ StoreXpUpsert(p) => StashOf(d)' = StashOf(d) + amt
             /\ (RedeemCommit(p) /\ XpOf(loc[p].user) = loc[p].old_xp)
                => StashOf(d)' + amt = StashOf(d)]_vars

\* Worker p's redeem publishes all of its effects in this step: the
\* credit, the History Entry and the removal of the Stash Entry.
FullyRedeemed(p) ==
    \A u \in {loc[p].user}, d \in {loc[p].sender}, amt \in {loc[p].amt},
       new_xp \in {loc[p].new_xp}, ts \in {loc[p].ts} :
        /\ xp_data' = [xp_data EXCEPT ![u].xp = new_xp, ![u].last_updated = ts]
        /\ xp_history' = Append(xp_history, [userId |-> u, xp_change |-> amt, timestamp |-> ts])
        /\ stored_xp' = [e \in DOMAIN stored_xp \ {d} |-> stored_xp[e]]

\* C6: redemption is all or nothing: every step of a redeem, its
\* interruption by a failure included, either leaves the durable tables
\* as they are or publishes the credit, the History Entry and the
\* removal of the Stash Entry together.
C6_RedeemAllOrNothing ==
    [][\A p \in Workers :
         (loc[p].op \in RedeemOps /\ pc'[p] # pc[p])
         => (db' = db \/ FullyRedeemed(p))]_vars

\* C6 witness: a redeem has run its UPDATE, INSERT and DELETE and has not
\* committed (a failure now rolls it back): the durable tables still
\* show the balance it read and the Stash Entry.
C6_Witness ==
    \E p \in Workers :
        /\ loc[p].op \in RedeemOps
        /\ pc[p] = "rd_commit"
        /\ loc[p].user \in DOMAIN wr_xp[p]
        /\ Len(wr_hist[p]) = 1
        /\ loc[p].sender \in wr_del[p]
        /\ xp_data[loc[p].user].xp = loc[p].old_xp
        /\ loc[p].sender \in DOMAIN stored_xp

\* C7: with one caller, a redeem of sender d with s > 0 stashed points
\* linked to a receiver with xp = x answers redeemed_xp = s and
\* new_xp = x + s, sets the receiver's xp to x + s and leaves d without
\* stashed points; the redeem of d right after it answers "No stored XP"
\* and leaves the receiver's record and the history as they are.
C7_SequentialRedeem ==
    [][\A p \in Workers :
         /\ ( /\ RedeemStash(p) \/ RedeemBalance(p)
              /\ StashOf(loc[p].sender) > 0
              /\ loc[p].user \in DOMAIN xp_data )
            => pc'[p] \in {"rd_xp", "rd_update"}
         /\ RedeemCommit(p)
            => \A u \in {loc[p].user}, d \in {loc[p].sender} :
                 /\ result'.status = "success"
                 /\ result'.a = StashOf(d)
                 /\ StashOf(d) > 0
                 /\ result'.b = XpOf(u) + StashOf(d)
                 /\ XpOf(u)' = XpOf(u) + StashOf(d)
                 /\ StashOf(d)' = 0
         /\ ( /\ RedeemStash(p)
              /\ result.op \in RedeemOps
              /\ result.status = "success"
              /\ result.key = loc[p].sender )
            => /\ result'.worker = p
               /\ result'.detail = "No stored XP"
               /\ xp_data' = xp_data
               /\ xp_history' = xp_history]_vars

\* C7 witness: d1's points were redeemed to u1 (xp 1 -> 2) and the redeem
\* of d1 after it was answered "No stored XP".
C7_Witness ==
    /\ result.op \in RedeemOps
    /\ result.key = "d1"
    /\ result.detail = "No stored XP"
    /\ xp_data["u1"].xp = EarlierRow.xp + 1
    /\ Len(xp_history) = 2
    /\ "d1" \notin DOMAIN stored_xp
    /\ nops = 2

\* C8: stash additivity: every stash call that runs its statement leaves
\* a Stash Entry holding the previous total plus its amount.
C8_StashAdditive ==
    [][\A p \in Workers :
         StoreXpUpsert(p)
         => \A d \in {loc[p].sender}, amt \in {loc[p].amt} :
              /\ d \in DOMAIN stored_xp'
              /\ stored_xp'[d] = StashOf(d) + amt]_vars

\* C9: the stash call returns the new accumulated total: its reply is a
\* success whose stored_xp is the Stash Entry's stashed_xp after the call.
C9_StashReturnsTotal ==
    [][\A p \in Workers :
         StoreXpUpsert(p)
         => \A d \in {loc[p].sender} :
              /\ result'.status = "success"
              /\ result'.a = StashOf(d)']_vars

\* C10: last_updated never decreases: no step lowers the last_updated of
\* a Balance Record.
C10_LastUpdatedMonotonic ==
    [][\A u \in DOMAIN xp_data :
         xp_data'[u].last_updated >= xp_data[u].last_updated]_vars

\* C11: redemption timestamps are strictly monotonic per receiver: the
\* redeem that commits leaves the receiver's last_updated strictly greater
\* than it was just before the commit.
C11_RedeemTimestampStrict ==
    [][\A p \in Workers :
         RedeemCommit(p)
         => \A u \in {loc[p].user} :
              u \in DOMAIN xp_data
              => xp_data'[u].last_updated > xp_data[u].last_updated]_vars

\* C12: no-op on zero delta: an accepted update that commits over the xp
\* it read appends exactly one History Entry {identity, proposed xp minus
\* stored xp, timestamp} when the proposed xp differs from the stored xp,
\* appends none when they are equal, and in both cases stores the proposed
\* xp and advances last_updated to its timestamp.
C12_NoOpOnZeroDelta ==
    [][\A p \in Workers :
         \A u \in {loc[p].user}, x \in {loc[p].xp}, t \in {loc[p].ts} :
           (UpdateXpCommit(p) /\ XpOf(u) = loc[p].old_xp)
           => /\ xp_history' =
                   IF x # XpOf(u)
                   THEN Append(xp_history, [userId |-> u, xp_change |-> x - XpOf(u),
                                            timestamp |-> t])
                   ELSE xp_history
              /\ xp_data'[u].xp = x
              /\ xp_data'[u].last_updated = t]_vars

\* An update of u1 with the xp it already had and a later timestamp was
\* accepted: the timestamp moved and the history did not grow.
C12_Witness ==
    /\ result.op = "update_xp"
    /\ result.status = "success"
    /\ result.key = "u1"
    /\ xp_data["u1"].xp = EarlierRow.xp
    /\ xp_data["u1"].last_updated > EarlierRow.last_updated
    /\ xp_history = EarlierHistory
    /\ nops = 1

\* The redeem request of worker p has no Identity Link to resolve: the
\* sender of /redeem_xp has no row in user_mappings, or no row points at
\* the receiver of /redeem_xp_ingame.
Unlinked(p) ==
    \/ /\ loc[p].op = "redeem_xp"
       /\ loc[p].sender \notin DOMAIN user_mappings
    \/ /\ loc[p].op = "redeem_xp_ingame"
       /\ \A d \in DOMAIN user_mappings : user_mappings[d] # loc[p].user

\* C13: unverified redemption: a redeem whose sender has no Identity Link
\* ends at the lookup with the error "User not verified", leaves every
\* Balance Record, History Entry, Stash Entry and Identity Link as it was,
\* and no redeem that found its link ends with that error (it is not the
\* outcome of a missing stash or a missing receiver).
C13_UnverifiedRedeem ==
    [][\A p \in Workers :
         /\ ((RedeemXpMapping(p) \/ RedeemXpIngameMapping(p)) /\ Unlinked(p))
            => /\ pc'[p] = "idle"
               /\ result'.worker = p
               /\ result'.status = "error"
               /\ result'.detail = "User not verified"
               /\ db' = db
               /\ wr_xp'[p] = Empty /\ wr_hist'[p] = <<>> /\ wr_del'[p] = {}
         /\ (loc[p].op \in RedeemOps /\ pc[p] # "idle" /\ pc'[p] = "idle"
               /\ result'.detail = "User not verified")
            => (pc[p] = "rd_map" /\ Unlinked(p))]_vars

\* The unlinked sender d2 asked to redeem its stashed points and was
\* turned away; the stash is still there.
C13_Witness ==
    /\ result.op = "redeem_xp"
    /\ result.key = "d2"
    /\ result.status = "error"
    /\ result.detail = "User not verified"
    /\ "d2" \notin DOMAIN user_mappings
    /\ StashOf("d2") > 0
    /\ xp_data = ("u1" :> EarlierRow)
    /\ nops = 1

\* C14: set_absolute on an unknown identity: a /set_xp for a user with no
\* Balance Record ends at its SELECT with the error "User not found",
\* creates no Balance Record and appends no History Entry.
C14_SetXpUnknownUser ==
    [][\A p \in Workers :
         (SetXpSelect(p) /\ loc[p].user \notin DOMAIN xp_data)
         => \A u \in {loc[p].user} :
              /\ pc'[p] = "idle"
              /\ result'.worker = p
              /\ result'.status = "error"
              /\ result'.detail = "User not found"
              /\ u \notin DOMAIN xp_data'
              /\ xp_data' = xp_data
              /\ xp_history' = xp_history
              /\ wr_xp'[p] = Empty /\ wr_hist'[p] = <<>>]_vars

\* /set_xp was asked to give u2, who has no Balance Record, one point, and
\* was turned away.
C14_Witness ==
    /\ result.op = "set_xp"
    /\ result.key = "u2"
    /\ result.status = "error"
    /\ result.detail = "User not found"
    /\ "u2" \notin DOMAIN xp_data
    /\ xp_history = EarlierHistory
    /\ nops = 1

\* C15: leaderboard bound: for every requested limit n >= 1, also above
\* the cap, a /leaderboard request that is answered succeeds and returns min(n, 50) rows, fewer only
\* when the table has fewer; the rows are distinct Balance Records, no
\* record left out has more xp than one returned, and the rows are in
\* descending order of xp.
C15_LeaderboardBound ==
    [][\A p \in Workers :
         (nops' = nops + 1 /\ result'.op = "leaderboard" /\ result'.worker = p)
         => LET n == result'.limit
                rows == result'.rows
                m == Len(rows)
                key(i) == CHOOSE u \in DOMAIN xp_data : xp_data[u].username = rows[i].username
            IN  n >= 1
                => /\ result'.status = "success"
                   /\ m <= Min(n, LeaderboardCap)
                   /\ m = Min(Min(n, LeaderboardCap), Cardinality(DOMAIN xp_data))
                   /\ \A i \in 1..m :
                        /\ \E u \in DOMAIN xp_data : xp_data[u].username = rows[i].username
                        /\ xp_data[key(i)].xp = rows[i].xp
                   /\ \A i, j \in 1..m : i # j => rows[i].username # rows[j].username
                   /\ \A u \in DOMAIN xp_data \ {key(i) : i \in 1..m} :
                        \A i \in 1..m : xp_data[u].xp <= rows[i].xp
                   /\ \A i \in 1..(m - 1) : rows[i].xp >= rows[i + 1].xp]_vars

\* The leaderboard of a table with more records than the cap was asked
\* for with a limit above the cap, and came back with exactly the cap.
C15_Witness ==
    /\ result.op = "leaderboard"
    /\ result.status = "success"
    /\ result.limit > LeaderboardCap
    /\ Cardinality(DOMAIN xp_data) > LeaderboardCap
    /\ Len(result.rows) = LeaderboardCap
    /\ result.rows[1].xp > result.rows[LeaderboardCap].xp

\* C16: the first update is never stale: an /update_xp with valid
\* arguments for a user that has no Balance Record passes the stale check
\* whatever its timestamp is, 0 included, and goes on to create the record.
C16_FirstUpdateNeverStale ==
    [][\A p \in Workers :
         (UpdateXpSelect(p) /\ loc[p].user \notin DOMAIN xp_data)
         => /\ pc'[p] = "upd_upsert"
            /\ result' = result]_vars

\* C17: redeem and update on the same receiver are linearizable: when a
\* redeem commits the stash it read, the committed xp of its receiver is
\* still the xp it read and added the stash to, so no /update_xp that
\* committed between the redeem's read and its write is overwritten.
C17_RedeemUpdateLinearizable ==
    [][\A p \in Workers :
         (RedeemCommit(p) /\ StashOf(loc[p].sender) = loc[p].amt)
         => XpOf(loc[p].user) = loc[p].old_xp]_vars

\* C18: frame of redeem: a step of a redeem changes nothing but the xp and
\* last_updated of its receiver's Balance Record and the Stash Entry of
\* its sender, and appends History Entries only for its receiver; the
\* receiver's display name and side data, every other Balance Record,
\* every other Stash Entry and all Identity Links stay as they were.
C18_RedeemFrame ==
    [][\A p \in Workers :
         \A u \in {loc[p].user}, d \in {loc[p].sender} :
           (loc[p].op \in RedeemOps /\ pc'[p] # pc[p])
           => /\ DOMAIN xp_data' = DOMAIN xp_data
              /\ \A v \in DOMAIN xp_data \ {u} : xp_data'[v] = xp_data[v]
              /\ u \in DOMAIN xp_data
                 => /\ xp_data'[u].username = xp_data[u].username
                    /\ xp_data'[u].offenseData = xp_data[u].offenseData
              /\ Len(xp_history') >= Len(xp_history)
              /\ SubSeq(xp_history', 1, Len(xp_history)) = xp_history
              /\ \A i \in (Len(xp_history) + 1)..Len(xp_history') :
                   xp_history'[i].userId = u
              /\ DOMAIN stored_xp \ {d} \subseteq DOMAIN stored_xp'
              /\ DOMAIN stored_xp' \subseteq DOMAIN stored_xp
              /\ \A e \in DOMAIN stored_xp' : stored_xp'[e] = stored_xp[e]
              /\ user_mappings' = user_mappings]_vars

\* d1 redeemed into u1 after an update had given u1 side data: the side
\* data and the new display name are still there, and so is the stash of
\* the other sender.
C18_Witness ==
    /\ result.op \in RedeemOps
    /\ result.status = "success"
    /\ result.key = "d1"
    /\ "d1" \notin DOMAIN stored_xp
    /\ StashOf("d2") > 0
    /\ xp_data["u1"].username = "n2"
    /\ xp_data["u1"].offenseData = "o1"
    /\ Len(xp_history) >= 2

\* Every committed xp and stashed amount, and every amount a handler works
\* with after its validation, is non-negative.
NonNegative ==
    /\ \A u \in DOMAIN xp_data : xp_data[u].xp >= 0
    /\ \A d \in DOMAIN stored_xp : stored_xp[d] >= 0
    /\ \A p \in Workers :
         /\ loc[p].xp >= 0 /\ loc[p].amt >= 0 /\ loc[p].new_xp >= 0
         /\ \A u \in DOMAIN wr_xp[p] : wr_xp[p][u].xp >= 0

\* C19: non-negativity: in every reachable state every Balance Record has
\* xp >= 0 and every Stash Entry has stashed_xp >= 0; no /update_xp,
\* /set_xp or /store_xp gets past its validation with a negative amount,
\* and the request that is turned away there gets an error reply and
\* changes no state.
C19_NonNegativity ==
    /\ []NonNegative
    /\ [][(nops' = nops + 1 /\ pc' = pc)
          => /\ result'.status = "error"
             /\ result'.detail \in {"XP must be a non-negative integer",
                                    "XP must be non-negative"}
             /\ db' = db
             /\ UNCHANGED <<wr_xp, wr_hist, wr_del>>]_vars

\* A /store_xp with a negative amount was turned away, second of two
\* requests, and the tables are as they were at the start.
C19_Witness ==
    /\ result.op = "store_xp"
    /\ result.status = "error"
    /\ result.detail = "XP must be non-negative"
    /\ nops = 2
    /\ \A p \in Workers : pc[p] = "idle"
    /\ xp_data = ("u1" :> EarlierRow)
    /\ xp_history = EarlierHistory

\* Worker p's handler is inside its transaction and its next statement
\* cannot run: it waits for a row lock.
Blocked(p) == InTransaction(p) /\ ~ENABLED Step(p)

\* C20: no operation blocks forever: a handler that waits for a row lock
\* waits for a transaction that is open and is not itself waiting (the
\* locks form no cycle), and under fair scheduling every request that was
\* accepted gets to its reply.
C20_NoBlockForever ==
    /\ [](\A p \in Workers :
            Blocked(p) => \E q \in Workers \ {p} : InTransaction(q) /\ ~Blocked(q))
    /\ \A p \in Workers : InTransaction(p) ~> ~InTransaction(p)

\* A redeem waits at its UPDATE for the row of u1, which the transaction
\* of a concurrent request has written and not yet committed.
C20_Witness ==
    \E p \in Workers :
        /\ Blocked(p)
        /\ loc[p].op \in RedeemOps
        /\ pc[p] = "rd_update"
        /\ \E q \in Workers \ {p} : loc[p].user \in DOMAIN wr_xp[q]

====
